---- MODULE Spec2Model ----
(***************************************************************************)
(* Model of the modulestore test configuration and test-case base class    *)
(* (xmodule/modulestore/tests/django_utils.py) and of the edxnotes         *)
(* decorator (lms/djangoapps/edxnotes/decorators.py).                      *)
(*                                                                         *)
(* Strings that the code inspects character by character (paths tested     *)
(* with startswith) are sequences of one-character strings.  Python's None *)
(* is the string "None".  The Django database (users, fixtures) and the    *)
(* request cache, which the lifecycle hooks also touch, hold no           *)
(* modulestore state and are left out.                                     *)
(***************************************************************************)
EXTENDS Integers, Sequences, FiniteSets, TLC

VARIABLES
    \* ---- configuration assembly (mixed_store_config and friends)
    cfgIn,          \* the arguments of the last configuration call
    cfgOut,         \* what the last configuration call returned (Unset before)
    \* ---- the edxnotes decorator
    decIn,          \* the component and arguments of the last get_html call
    decOut,         \* what the decorated get_html returned (Unset before)
    decCalls,       \* the collaborators the last get_html call invoked, in order
    \* ---- the test-case lifecycle (ModuleStoreTestCase)
    settings,       \* settings.MODULESTORE of the running test class
    mstore,         \* the modulestore instance modulestore() caches (NoStore when cleared)
    nextId,         \* identity of the next modulestore instance to be created
    mongo,          \* Mongo: database name -> the documents it holds
    contentstore,   \* _CONTENTSTORE: the cached contentstores, by the test that made them
    dirs,           \* the directories that exist on disk
    pc,             \* where the test runner is: idle, class, pre, body
    selfStore,      \* self.store: identity of the instance setUp obtained (0: none)
    testNo,         \* number of test methods started so far
    testInClass,    \* number of test methods started in the running class
    exposes,        \* the store engines whose instances have a 'database' attribute
    closers,        \* the modulestore engines that provide close_connections
    usedEarlier,    \* identities of the instances earlier tests' setUp and body used
    prevBodyStore,  \* instance the previous test method of this class used (0: none)
    lastDrop,       \* what the last drop_mongo_collections call did
    rmLog,          \* the paths the last _post_teardown handed to shutil.rmtree
    dirsBefore,     \* the directories that existed when the last _post_teardown began
    tdRaised,       \* whether the last _post_teardown raised an error
    everWrote,      \* the test methods that wrote to Mongo or used the contentstore
    \* ---- create_sample_course
    courseIn,       \* the arguments of the last create_sample_course call
    courseOut       \* what the call did to the store and the test case, and returned

cfgVars == <<cfgIn, cfgOut>>
decVars == <<decIn, decOut, decCalls>>
lifeVars == <<settings, mstore, nextId, mongo, contentstore, dirs, pc, selfStore,
              testNo, testInClass, exposes, closers, usedEarlier, prevBodyStore,
              lastDrop, rmLog, dirsBefore, tdRaised, everWrote>>
courseVars == <<courseIn, courseOut>>
vars == <<cfgIn, cfgOut, decIn, decOut, decCalls, settings, mstore, nextId, mongo,
          contentstore, dirs, pc, selfStore, testNo, testInClass, exposes, closers,
          usedEarlier, prevBodyStore, lastDrop, rmLog, dirsBefore, tdRaised,
          everWrote, courseIn, courseOut>>

None == "None"
\* a variable that holds a record once set, before it is set
Unset == [unset |-> TRUE]
\* the function with no arguments (an object without attributes)
Empty == [x \in {} |-> TRUE]

(***************************************************************************)
(* Paths.                                                                  *)
(***************************************************************************)
TmpPrefix == <<"/", "t", "m", "p", "/">>
TmpDirA == <<"/", "t", "m", "p", "/", "a">>
TmpDirB == <<"/", "t", "m", "p", "/", "b">>
TestDataDir == <<"/", "d", "a", "t", "a">>
TmpLookalike == <<"/", "t", "m", "p", "x">>
TmpRoot == <<"/", "t", "m", "p">>

DataDirs == {TmpDirA, TmpDirB, TestDataDir, TmpLookalike, TmpRoot}

\* str.startswith
startswith(s, prefix) ==
    /\ Len(s) >= Len(prefix)
    /\ SubSeq(s, 1, Len(prefix)) = prefix

(***************************************************************************)
(* Configuration assembly.                                                 *)
(***************************************************************************)
MONGO_HOST == "MONGO_HOST"
MONGO_PORT_NUM == "MONGO_PORT_NUM"

\* uuid4().hex[:5]: a fresh value at every call
Uuids == {"0a1b2", "c3d4e"}

\* the course-id -> store-name dictionaries handed to mixed_store_config
NoMappings == [c \in {} |-> "xml"]
ToyMappings == [c \in {"edX/toy/2012_Fall"} |-> "xml"]
MAPPINGS == [c \in {"edX/simple/2012_Fall", "edX/toy/2012_Fall"} |-> "xml"]
MappingsSet == {NoMappings, ToyMappings, MAPPINGS}

draft_mongo_store_config(data_dir, uuid) ==
    [default |->
        [NAME |-> "draft",
         ENGINE |-> "xmodule.modulestore.mongo.draft.DraftModuleStore",
         DOC_STORE_CONFIG |->
            [host |-> MONGO_HOST,
             port |-> MONGO_PORT_NUM,
             db |-> "test_xmodule",
             collection |-> <<"modulestore", uuid>>],
         OPTIONS |->
            [default_class |-> "xmodule.raw_module.RawDescriptor",
             fs_root |-> data_dir,
             render_template |-> "edxmako.shortcuts.render_to_string"]]]

split_mongo_store_config(data_dir, uuid) ==
    [default |->
        [NAME |-> "draft",
         ENGINE |-> "xmodule.modulestore.split_mongo.split_draft.DraftVersioningModuleStore",
         DOC_STORE_CONFIG |->
            [host |-> MONGO_HOST,
             port |-> MONGO_PORT_NUM,
             db |-> "test_xmodule",
             collection |-> <<"modulestore", uuid>>],
         OPTIONS |->
            [default_class |-> "xmodule.raw_module.RawDescriptor",
             fs_root |-> data_dir,
             render_template |-> "edxmako.shortcuts.render_to_string"]]]

xml_store_config(data_dir, course_dirs) ==
    [default |->
        [NAME |-> "xml",
         ENGINE |-> "xmodule.modulestore.xml.XMLModuleStore",
         OPTIONS |->
            [data_dir |-> data_dir,
             default_class |-> "xmodule.hidden_module.HiddenDescriptor",
             course_dirs |-> course_dirs]]]

\* mutant: the XML store is put first
mixed_store_config_xml_first(data_dir, mappings, include_xml, uuid1, uuid2) ==
    LET stores == << draft_mongo_store_config(data_dir, uuid1).default,
                     split_mongo_store_config(data_dir, uuid2).default >>
        stores2 == IF include_xml
                   THEN <<xml_store_config(data_dir, None).default>> \o stores
                   ELSE stores
    IN  [default |->
            [ENGINE |-> "xmodule.modulestore.mixed.MixedModuleStore",
             OPTIONS |-> [mappings |-> mappings, stores |-> stores2]]]

mixed_store_config(data_dir, mappings, include_xml, uuid1, uuid2) ==
    LET stores == << draft_mongo_store_config(data_dir, uuid1).default,
                     split_mongo_store_config(data_dir, uuid2).default >>
        stores2 == IF include_xml
                   THEN Append(stores, xml_store_config(data_dir, None).default)
                   ELSE stores
    IN  [default |->
            [ENGINE |-> "xmodule.modulestore.mixed.MixedModuleStore",
             OPTIONS |-> [mappings |-> mappings, stores |-> stores2]]]

CfgInputs ==
    [data_dir : DataDirs, mappings : MappingsSet, include_xml : BOOLEAN,
     uuid1 : Uuids, uuid2 : Uuids]

CfgInit ==
    /\ cfgIn = Unset
    /\ cfgOut = Unset

\* a test module calls mixed_store_config(data_dir, mappings, include_xml)
CallMixedStoreConfig ==
    /\ \E i \in CfgInputs :
        /\ cfgIn' = i
        /\ cfgOut' = mixed_store_config(i.data_dir, i.mappings, i.include_xml,
                                        i.uuid1, i.uuid2)
    /\ UNCHANGED decVars
    /\ UNCHANGED lifeVars
    /\ UNCHANGED courseVars

(***************************************************************************)
(* The edxnotes decorator.                                                 *)
(***************************************************************************)
\* getattr(obj, name, default)
getattr(obj, name, default) ==
    IF name \in DOMAIN obj THEN obj[name] ELSE default

\* the runtime systems a component may carry: with is_author_mode set either
\* way, and without the attribute
Systems ==
    { [is_author_mode |-> TRUE, anonymous_student_id |-> "anon"],
      [is_author_mode |-> FALSE, anonymous_student_id |-> "anon"],
      [anonymous_student_id |-> "anon"] }

Htmls == {"<p>a</p>", "<p>b</p>"}
ArgSets == { <<>>, <<"student_view">> }
KwargSets == { [k \in {} |-> None], [k \in {"context"} |-> "ctx"] }

\* self, as far as get_html reads it; feature_enabled is what
\* is_feature_enabled(course) answers for the component's course
Components ==
    [system : Systems, html : Htmls, usage_id : {"usage1"},
     course_id : {"course1"}, feature_enabled : BOOLEAN,
     edxnotes_visibility : BOOLEAN]

DecInputs == [self : Components, args : ArgSets, kwargs : KwargSets,
              uid : {"uid1", "uid2"}, debug : BOOLEAN]

\* cls.get_html as it was before the decorator replaced it
original_get_html(self, args, kwargs) ==
    [html |-> self.html, args |-> args, kwargs |-> kwargs]

is_feature_enabled(self) == self.feature_enabled

render_to_string(template, context) ==
    [template |-> template, context |-> context]

\* mutant: the missing attribute counts as author mode
is_studio_default_true(self) == getattr(self.system, "is_author_mode", TRUE)

\* is_studio = getattr(self.system, 'is_author_mode', False)
is_studio(self) == getattr(self.system, "is_author_mode", FALSE)

\* mutant: the wrapper is skipped only when both conditions hold
get_html_and(self, args, kwargs, uid, debug) ==
        IF is_studio(self) /\ ~is_feature_enabled(self)
        THEN original_get_html(self, args, kwargs)
        ELSE render_to_string("edxnotes_wrapper.html",
                [content |-> original_get_html(self, args, kwargs),
                 uid |-> uid,
                 edxnotes_visibility_url |-> <<"edxnotes_visibility", self.course_id>>,
                 edxnotes_visibility |-> self.edxnotes_visibility,
                 params |-> [usageId |-> self.usage_id,
                             courseId |-> self.course_id,
                             token |-> <<"token", self.system.anonymous_student_id>>,
                             endpoint |-> "endpoint",
                             debug |-> debug]])

\* the get_html the decorator installs; uid is what generate_uid() answers and
\* debug is settings.DEBUG
get_html(self, args, kwargs, uid, debug) ==
        IF is_studio(self) \/ ~is_feature_enabled(self)
        THEN original_get_html(self, args, kwargs)
        ELSE render_to_string("edxnotes_wrapper.html",
                [content |-> original_get_html(self, args, kwargs),
                 uid |-> uid,
                 edxnotes_visibility_url |-> <<"edxnotes_visibility", self.course_id>>,
                 edxnotes_visibility |-> self.edxnotes_visibility,
                 params |-> [usageId |-> self.usage_id,
                             courseId |-> self.course_id,
                             token |-> <<"token", self.system.anonymous_student_id>>,
                             endpoint |-> "endpoint",
                             debug |-> debug]])

\* a call of a collaborator that get_html hands no arguments of its own
Call(fn) == [fn |-> fn]

\* the call original_get_html(self, *args, **kwargs)
OriginalCall(self, args, kwargs) ==
    [fn |-> "original_get_html", self |-> self, args |-> args, kwargs |-> kwargs]

\* mutant: the wrapper's context is built before the branch is taken
get_html_calls_eager(self, args, kwargs) ==
    LET head == <<Call("get_course")>>
                \o (IF is_studio(self) THEN <<>> ELSE <<Call("is_feature_enabled")>>)
        context == <<OriginalCall(self, args, kwargs), Call("generate_uid"),
                     Call("reverse"), Call("get_real_user"), Call("get_token"),
                     Call("get_endpoint")>>
    IN  IF is_studio(self) \/ ~is_feature_enabled(self)
        THEN head \o context
        ELSE head \o context \o <<Call("render_to_string")>>

\* the collaborators get_html invokes, in the order Python evaluates them;
\* `or` does not evaluate is_feature_enabled when is_studio is true
get_html_calls(self, args, kwargs) ==
    LET head == <<Call("get_course")>>
                \o (IF is_studio(self) THEN <<>> ELSE <<Call("is_feature_enabled")>>)
    IN  IF is_studio(self) \/ ~is_feature_enabled(self)
        THEN head \o <<OriginalCall(self, args, kwargs)>>
        ELSE head \o <<OriginalCall(self, args, kwargs), Call("generate_uid"),
                       Call("reverse"), Call("get_real_user"), Call("get_token"),
                       Call("get_endpoint"), Call("render_to_string")>>

DecInit ==
    /\ decIn = Unset
    /\ decOut = Unset
    /\ decCalls = <<>>

\* a view renders a decorated component
CallGetHtml ==
    /\ \E i \in DecInputs :
        /\ decIn' = i
        /\ decOut' = get_html(i.self, i.args, i.kwargs, i.uid, i.debug)
        /\ decCalls' = get_html_calls(i.self, i.args, i.kwargs)
    /\ UNCHANGED cfgVars
    /\ UNCHANGED lifeVars
    /\ UNCHANGED courseVars

(***************************************************************************)
(* The test-case lifecycle: ModuleStoreTestCase.                           *)
(***************************************************************************)
MixedEngine == "xmodule.modulestore.mixed.MixedModuleStore"
XmlEngine == "xmodule.modulestore.xml.XMLModuleStore"
DraftEngine == "xmodule.modulestore.mongo.draft.DraftModuleStore"
SplitEngine == "xmodule.modulestore.split_mongo.split_draft.DraftVersioningModuleStore"

\* the largest number of test methods a run executes
MaxTests == 2
\* the largest number of stores a configuration lists: draft, split and xml
MaxStores == 3
\* the stores of a configuration that have an fs_root: draft and split
MongoStores == 2

\* the module-level configurations
TEST_DATA_XML_MODULESTORE == xml_store_config(TestDataDir, None)
TEST_DATA_MIXED_XML_MODULESTORE ==
    mixed_store_config(TestDataDir, MAPPINGS, TRUE, "0a1b2", "c3d4e")
TEST_DATA_MONGO_MODULESTORE ==
    mixed_store_config(TmpDirA, NoMappings, FALSE, "0a1b2", "c3d4e")
TEST_DATA_MOCK_MODULESTORE ==
    mixed_store_config(TmpDirB, NoMappings, FALSE, "c3d4e", "0a1b2")

\* what @override_settings(MODULESTORE=...) gives a test class
ClassSettings ==
    {TEST_DATA_XML_MODULESTORE, TEST_DATA_MIXED_XML_MODULESTORE,
     TEST_DATA_MONGO_MODULESTORE, TEST_DATA_MOCK_MODULESTORE}

NoStore == Unset

hasattr(obj, name) == name \in DOMAIN obj

isinstance(obj, engine) == obj.ENGINE = engine

\* one store built from its profile: it keeps its document-store connection
\* when the profile has one, shows it as 'database' when its engine does so,
\* and has fs_root when the profile's OPTIONS pass one
create_store(profile, exp) ==
    [NAME |-> profile.NAME, ENGINE |-> profile.ENGINE]
    @@ (IF hasattr(profile, "DOC_STORE_CONFIG")
        THEN [doc_store_config |-> profile.DOC_STORE_CONFIG]
        ELSE Empty)
    @@ (IF hasattr(profile, "DOC_STORE_CONFIG") /\ profile.ENGINE \in exp
        THEN [database |-> [name |-> profile.DOC_STORE_CONFIG.db]]
        ELSE Empty)
    @@ (IF hasattr(profile.OPTIONS, "fs_root")
        THEN [fs_root |-> profile.OPTIONS.fs_root]
        ELSE Empty)

\* the modulestore built from settings.MODULESTORE
create_modulestore(cfg, id, exp, clo) ==
    LET p == cfg.default
        close == IF p.ENGINE \in clo THEN [close_connections |-> TRUE] ELSE Empty
    IN  IF p.ENGINE = MixedEngine
        THEN [id |-> id, ENGINE |-> p.ENGINE,
              modulestores |-> [i \in 1..Len(p.OPTIONS.stores) |->
                                    create_store(p.OPTIONS.stores[i], exp)]]
             @@ close
        ELSE [id |-> id] @@ create_store(p, exp) @@ close

\* modulestore(): the cached instance, created on first access
modulestore(cache, cfg, id, exp, clo) ==
    IF cache = NoStore THEN create_modulestore(cfg, id, exp, clo) ELSE cache

\* clear_existing_modulestores(): forget the cached instance
clear_existing_modulestores(cache) == NoStore

\* the sub-stores whose database drop_mongo_collections drops
drop_targets(module_store) ==
    IF ~isinstance(module_store, XmlEngine)
    THEN {i \in DOMAIN module_store.modulestores :
            hasattr(module_store.modulestores[i], "database")}
    ELSE {}

\* connection.drop_database(name)
drop_database(db, name) == [db EXCEPT ![name] = {}]

RECURSIVE drop_all(_, _)
drop_all(db, names) ==
    IF names = {} THEN db
    ELSE LET n == CHOOSE n \in names : TRUE
         IN  drop_all(drop_database(db, n), names \ {n})

\* mutant: the connections are closed but no database is dropped
drop_mongo_collections_no_drop(module_store, db, cs) ==
    LET targets == drop_targets(module_store)
    IN  [mongo |-> db,
         contentstore |-> {},
         log |-> [store |-> module_store.id,
                  dropped |-> {},
                  disconnected |-> targets,
                  cleared |-> TRUE,
                  closed |-> hasattr(module_store, "close_connections")]]

\* mutant: the contentstore cache is cleared inside the not-XML branch
drop_mongo_collections_clear_inside(module_store, db, cs) ==
    LET targets == drop_targets(module_store)
        names == {module_store.modulestores[i].database.name : i \in targets}
        xml == isinstance(module_store, XmlEngine)
    IN  [mongo |-> drop_all(db, names),
         contentstore |-> IF xml THEN cs ELSE {},
         log |-> [store |-> module_store.id,
                  dropped |-> names,
                  disconnected |-> targets,
                  cleared |-> ~xml,
                  closed |-> hasattr(module_store, "close_connections")]]

\* drop_mongo_collections() on the current modulestore: the databases and the
\* contentstore cache afterwards, and what was done
drop_mongo_collections(module_store, db, cs) ==
    LET targets == drop_targets(module_store)
        names == {module_store.modulestores[i].database.name : i \in targets}
    IN  [mongo |-> drop_all(db, names),
         contentstore |-> {},
         log |-> [store |-> module_store.id,
                  dropped |-> names,
                  disconnected |-> targets,
                  cleared |-> TRUE,
                  closed |-> hasattr(module_store, "close_connections")]]

\* os.path.isdir
isdir(ds, path) == path \in ds

\* shutil.rmtree(path, ignore_errors): ok is whether the file system lets the
\* removal succeed; a failure is raised unless errors are ignored
rmtree(ds, path, ignore_errors, ok) ==
    [dirs |-> IF ok /\ isdir(ds, path)
              THEN {d \in ds : ~(d = path \/ startswith(d, path \o <<"/">>))}
              ELSE ds,
     raised |-> ~ignore_errors /\ ~(ok /\ isdir(ds, path))]

\* mutant: the directory is not tested for existence
removes_fs_root_no_isdir(store, ds) ==
    /\ hasattr(store, "fs_root")
    /\ startswith(store.fs_root, TmpPrefix)

\* whether _post_teardown removes this store's directory
removes_fs_root(store, ds) ==
    /\ hasattr(store, "fs_root")
    /\ startswith(store.fs_root, TmpPrefix)
    /\ isdir(ds, store.fs_root)

\* the loop of _post_teardown over the sub-stores, from the i-th on
RECURSIVE remove_tmp_dirs(_, _, _, _)
remove_tmp_dirs(stores, i, st, oks) ==
    IF i > Len(stores) THEN st
    ELSE IF removes_fs_root(stores[i], st.dirs)
         THEN LET r == rmtree(st.dirs, stores[i].fs_root, TRUE, oks[i])
              IN  remove_tmp_dirs(stores, i + 1,
                      [dirs |-> r.dirs,
                       log |-> Append(st.log, stores[i].fs_root),
                       raised |-> st.raised \/ r.raised],
                      oks)
         ELSE remove_tmp_dirs(stores, i + 1, st, oks)

\* mutant: _post_teardown does not clear the modulestores
post_teardown_store_no_clear(cache, cfg, id, exp, clo) ==
    modulestore(cache, cfg, id, exp, clo)

\* the instance that is current once _post_teardown has cleared the
\* modulestores and asked for the modulestore again
post_teardown_store(cache, cfg, id, exp, clo) ==
    modulestore(clear_existing_modulestores(cache), cfg, id, exp, clo)

Docs == [collection : {<<"modulestore", u>> : u \in Uuids}, test : 1..MaxTests]

LifeStart ==
    /\ settings = Unset
    /\ mstore = NoStore
    /\ nextId = 1
    /\ mongo = [n \in {"test_xmodule"} |-> {}]
    /\ contentstore = {}
    /\ dirs = DataDirs
    /\ pc = "idle"
    /\ selfStore = 0
    /\ testNo = 0
    /\ testInClass = 0
    /\ usedEarlier = {}
    /\ prevBodyStore = 0
    /\ lastDrop = Unset
    /\ rmLog = <<>>
    /\ dirsBefore = {}
    /\ tdRaised = FALSE
    /\ everWrote = {}

\* which engines show a 'database' attribute and which provide
\* close_connections is decided by classes outside this module
LifeInit ==
    /\ LifeStart
    /\ exposes \in SUBSET {DraftEngine, SplitEngine}
    /\ closers \in SUBSET {MixedEngine, XmlEngine}

\* no test runs
LifeIdle ==
    /\ LifeStart
    /\ exposes = {}
    /\ closers = {}

\* a test class starts: its settings are in force and setUpClass runs
SetUpClass(cfg) ==
    /\ pc \in {"idle", "class"}
    /\ testNo < MaxTests
    /\ settings' = cfg
    /\ mstore' = clear_existing_modulestores(mstore)
    /\ pc' = "class"
    /\ testInClass' = 0
    /\ prevBodyStore' = 0
    /\ UNCHANGED <<nextId, mongo, contentstore, dirs, selfStore, testNo, exposes,
                   closers, usedEarlier, lastDrop, rmLog, dirsBefore, tdRaised,
                   everWrote>>
    /\ UNCHANGED cfgVars
    /\ UNCHANGED decVars
    /\ UNCHANGED courseVars

\* _pre_setup of the next test method
PreSetup ==
    /\ pc = "class"
    /\ testNo < MaxTests
    /\ LET ms == modulestore(mstore, settings, nextId, exposes, closers)
           d == drop_mongo_collections(ms, mongo, contentstore)
       IN  /\ mstore' = ms
           /\ nextId' = IF mstore = NoStore THEN nextId + 1 ELSE nextId
           /\ mongo' = d.mongo
           /\ contentstore' = d.contentstore
           /\ lastDrop' = d.log
    /\ pc' = "pre"
    /\ testNo' = testNo + 1
    /\ testInClass' = testInClass + 1
    /\ UNCHANGED <<settings, dirs, selfStore, exposes, closers, usedEarlier,
                   prevBodyStore, rmLog, dirsBefore, tdRaised, everWrote>>
    /\ UNCHANGED cfgVars
    /\ UNCHANGED decVars
    /\ UNCHANGED courseVars

\* setUp: self.store = modulestore()
SetUp ==
    /\ pc = "pre"
    /\ LET ms == modulestore(mstore, settings, nextId, exposes, closers)
       IN  /\ mstore' = ms
           /\ nextId' = IF mstore = NoStore THEN nextId + 1 ELSE nextId
           /\ selfStore' = ms.id
    /\ pc' = "body"
    /\ UNCHANGED <<settings, mongo, contentstore, dirs, testNo, testInClass,
                   exposes, closers, usedEarlier, prevBodyStore, lastDrop, rmLog,
                   dirsBefore, tdRaised, everWrote>>
    /\ UNCHANGED cfgVars
    /\ UNCHANGED decVars
    /\ UNCHANGED courseVars

\* the test body creates course content in the i-th Mongo-backed store
BodyWriteCourse(i) ==
    /\ pc = "body"
    /\ mstore # NoStore
    /\ hasattr(mstore, "modulestores")
    /\ i \in DOMAIN mstore.modulestores
    /\ hasattr(mstore.modulestores[i], "doc_store_config")
    /\ LET c == mstore.modulestores[i].doc_store_config
       IN  mongo' = [mongo EXCEPT ![c.db] =
                        @ \cup {[collection |-> c.collection, test |-> testNo]}]
    /\ everWrote' = everWrote \cup {testNo}
    /\ UNCHANGED <<settings, mstore, nextId, contentstore, dirs, pc, selfStore,
                   testNo, testInClass, exposes, closers, usedEarlier,
                   prevBodyStore, lastDrop, rmLog, dirsBefore, tdRaised>>
    /\ UNCHANGED cfgVars
    /\ UNCHANGED decVars
    /\ UNCHANGED courseVars

\* the test body uses the contentstore, which caches it in _CONTENTSTORE
BodyUseContentstore ==
    /\ pc = "body"
    /\ contentstore' = contentstore \cup {testNo}
    /\ everWrote' = everWrote \cup {testNo}
    /\ UNCHANGED <<settings, mstore, nextId, mongo, dirs, pc, selfStore, testNo,
                   testInClass, exposes, closers, usedEarlier, prevBodyStore,
                   lastDrop, rmLog, dirsBefore, tdRaised>>
    /\ UNCHANGED cfgVars
    /\ UNCHANGED decVars
    /\ UNCHANGED courseVars

\* _post_teardown of the running test method; oks[i] is whether the file
\* system lets the removal for the i-th store succeed
PostTeardown(oks) ==
    /\ pc = "body"
    /\ LET ms == modulestore(mstore, settings, nextId, exposes, closers)
           d == drop_mongo_collections(ms, mongo, contentstore)
           module_store == post_teardown_store(ms, settings, nextId, exposes, closers)
           r == IF ~isinstance(module_store, XmlEngine)
                THEN remove_tmp_dirs(module_store.modulestores, 1,
                        [dirs |-> dirs, log |-> <<>>, raised |-> FALSE], oks)
                ELSE [dirs |-> dirs, log |-> <<>>, raised |-> FALSE]
       IN  /\ mongo' = d.mongo
           /\ contentstore' = d.contentstore
           /\ lastDrop' = d.log
           /\ mstore' = module_store
           /\ nextId' = IF module_store.id = nextId THEN nextId + 1 ELSE nextId
           /\ dirs' = r.dirs
           /\ rmLog' = r.log
           /\ tdRaised' = r.raised
    /\ dirsBefore' = dirs
    /\ usedEarlier' = usedEarlier \cup {selfStore}
    /\ prevBodyStore' = selfStore
    /\ pc' = "class"
    /\ UNCHANGED <<settings, selfStore, testNo, testInClass, exposes, closers,
                   everWrote>>
    /\ UNCHANGED cfgVars
    /\ UNCHANGED decVars
    /\ UNCHANGED courseVars

(***************************************************************************)
(* create_sample_course.                                                   *)
(***************************************************************************)
\* the largest number of blocks in a block-info tree handed to
\* create_sample_course
MaxBlocks == 4

Digit == <<"1", "2", "3", "4", "5", "6", "7", "8", "9">>

\* the category of the blocks at a depth of the tree
Category(depth) ==
    IF depth = 1 THEN "chapter"
    ELSE IF depth = 2 THEN "sequential"
    ELSE IF depth = 3 THEN "vertical"
    ELSE "html"

\* the ordered forests of exactly n nodes; a node is the list of its children
RECURSIVE ForestShapes(_)
ForestShapes(n) ==
    IF n = 0 THEN {<<>>}
    ELSE UNION { { <<s>> \o r : s \in ForestShapes(k), r \in ForestShapes(n - 1 - k) } :
                    k \in 0..(n - 1) }

\* BlockInfo(block_id, category, fields, sub_tree) records over a shape, each
\* with a block_id of its own
RECURSIVE BlockInfos(_, _, _)
BlockInfos(shape, prefix, depth) ==
    [i \in 1..Len(shape) |->
        [block_id |-> prefix \o <<Digit[i]>>,
         category |-> Category(depth),
         fields |-> [display_name |-> prefix \o <<Digit[i]>>],
         sub_tree |-> BlockInfos(shape[i], prefix \o <<Digit[i]>>, depth + 1)]]

BlockInfoTrees ==
    {BlockInfos(sh, <<"b">>, 1) : sh \in UNION {ForestShapes(n) : n \in 0..MaxBlocks}}

\* sample_courses.default_block_info_tree
default_block_info_tree ==
    << [block_id |-> <<"chapter_x">>, category |-> "chapter",
        fields |-> Empty,
        sub_tree |->
          << [block_id |-> <<"sequential_x1">>, category |-> "sequential",
              fields |-> Empty,
              sub_tree |->
                << [block_id |-> <<"vertical_x1a">>, category |-> "vertical",
                    fields |-> Empty, sub_tree |-> <<>>] >>] >>],
       [block_id |-> <<"chapter_y">>, category |-> "chapter",
        fields |-> Empty,
        sub_tree |->
          << [block_id |-> <<"sequential_y1">>, category |-> "sequential",
              fields |-> Empty, sub_tree |-> <<>>] >>] >>

\* an optional argument: left at its default None, or given
NoneArg == [none |-> TRUE]
Given(v) == [none |-> FALSE, value |-> v]

\* UsageKey.version_agnostic() and CourseKey.version_agnostic(): the key
\* without its version (0 is no version)
key_version_agnostic(key) == [key EXCEPT !.version = 0]
version_agnostic(loc) ==
    [loc EXCEPT !.version = 0, !.course_key = key_version_agnostic(@)]

\* the version a versioning store stamps on what the next write returns
next_version(st) == IF st.versioned THEN st.ver + 1 ELSE 0

\* store.create_course(org, course, run, user_id, fields=...)
create_course(st, org, course, run, user_id, fields) ==
    LET v == next_version(st)
        key == [org |-> org, course |-> course, run |-> run, version |-> v]
        loc == [course_key |-> key, category |-> "course",
                block_id |-> <<"course">>, version |-> v]
    IN  [st |-> [st EXCEPT !.ver = v,
                           !.log = Append(@, [op |-> "create_course", org |-> org,
                                              course |-> course, run |-> run,
                                              user_id |-> user_id, fields |-> fields,
                                              loc |-> loc])],
         course |-> [location |-> loc]]

\* store.create_child(user_id, parent_loc, category, block_id=..., fields=...)
create_child(st, user_id, parent_loc, category, block_id, fields) ==
    LET v == next_version(st)
        loc == [course_key |-> [parent_loc.course_key EXCEPT !.version = v],
                category |-> category, block_id |-> block_id, version |-> v]
    IN  [st |-> [st EXCEPT !.ver = v,
                           !.log = Append(@, [op |-> "create_child",
                                              user_id |-> user_id,
                                              parent |-> parent_loc,
                                              category |-> category,
                                              block_id |-> block_id,
                                              fields |-> fields,
                                              loc |-> loc])],
         block |-> [location |-> loc]]

\* store.publish(location, user_id)
publish(st, loc, user_id) ==
    [st EXCEPT !.log = Append(@, [op |-> "publish", loc |-> loc,
                                  user_id |-> user_id])]

\* setattr(self, name, value)
setattr(st, name, value) ==
    [st EXCEPT !.attrs = [n \in DOMAIN @ \cup {name} |->
                            IF n = name THEN value ELSE @[n]]]

RECURSIVE create_sub_tree(_, _, _, _)
RECURSIVE create_sub_trees(_, _, _, _, _)

\* mutant: the children are created under the parent of their parent
create_sub_tree_flat(st, user_id, parent_loc, block_info) ==
    LET r == create_child(st, user_id, version_agnostic(parent_loc),
                          block_info.category, block_info.block_id,
                          block_info.fields)
        st2 == create_sub_trees(r.st, user_id, parent_loc,
                                block_info.sub_tree, 1)
    IN  setattr(st2, block_info.block_id, version_agnostic(r.block.location))

\* the inner function create_sub_tree(parent_loc, block_info)
create_sub_tree(st, user_id, parent_loc, block_info) ==
    LET r == create_child(st, user_id, version_agnostic(parent_loc),
                          block_info.category, block_info.block_id,
                          block_info.fields)
        st2 == create_sub_trees(r.st, user_id, r.block.location,
                                block_info.sub_tree, 1)
    IN  setattr(st2, block_info.block_id, version_agnostic(r.block.location))

\* for tree in trees: create_sub_tree(parent_loc, tree), from the i-th tree on
create_sub_trees(st, user_id, parent_loc, trees, i) ==
    IF i > Len(trees) THEN st
    ELSE create_sub_trees(create_sub_tree(st, user_id, parent_loc, trees[i]),
                          user_id, parent_loc, trees, i + 1)

\* create_sample_course(org, course, run, block_info_tree, course_fields) on a
\* store in state st, by the test user
create_sample_course(st, user_id, org, course, run, block_info_tree, course_fields) ==
    LET tree == IF block_info_tree.none THEN default_block_info_tree
                ELSE block_info_tree.value
        c == create_course(st, org, course, run, user_id, course_fields)
        course_loc == c.course.location
        st2 == create_sub_trees(c.st, user_id, course_loc, tree, 1)
        st3 == publish(st2, version_agnostic(course_loc), user_id)
    IN  [log |-> st3.log,
         attrs |-> st3.attrs,
         course_loc |-> course_loc,
         ret |-> key_version_agnostic(course_loc.course_key)]

CourseInputs ==
    [org : {"edX", "MITx"}, course : {"toy"}, run : {"2012_Fall"},
     block_info_tree : {NoneArg} \cup {Given(t) : t \in BlockInfoTrees},
     course_fields : {"None", "fields"},
     versioned : BOOLEAN]

CourseInit ==
    /\ courseIn = Unset
    /\ courseOut = Unset

\* a test creates a sample course in self.store, which stamps versions on
\* what it returns or not
CreateSampleCourse ==
    /\ \E i \in CourseInputs :
        /\ courseIn' = i
        /\ courseOut' = create_sample_course(
                [log |-> <<>>, attrs |-> Empty, ver |-> 0, versioned |-> i.versioned],
                "user", i.org, i.course, i.run, i.block_info_tree, i.course_fields)
    /\ UNCHANGED cfgVars
    /\ UNCHANGED decVars
    /\ UNCHANGED lifeVars

(***************************************************************************)
(* Specifications.                                                         *)
(***************************************************************************)
\* the test runner: test classes one after the other, each test method as
\* _pre_setup, setUp, body, _post_teardown
LifeNext ==
    \/ \E cfg \in ClassSettings : SetUpClass(cfg)
    \/ PreSetup
    \/ SetUp
    \/ \E i \in 1..MaxStores : BodyWriteCourse(i)
    \/ BodyUseContentstore
    \/ \E oks \in [1..MongoStores -> BOOLEAN] : PostTeardown(oks)

\* the state before any test class has run
Init ==
    /\ CfgInit /\ DecInit /\ LifeInit /\ CourseInit

\* the state of a run in which no test class runs
InitIdle ==
    /\ CfgInit /\ DecInit /\ LifeIdle /\ CourseInit

Spec == Init /\ [][LifeNext]_vars

SpecConfig == InitIdle /\ [][CallMixedStoreConfig]_vars

SpecDecorator == InitIdle /\ [][CallGetHtml]_vars

SpecCourse == InitIdle /\ [][CreateSampleCourse]_vars

(***************************************************************************)
(* Properties.                                                             *)
(***************************************************************************)
\* whether the component's system is explicitly in author mode
InAuthorMode(self) ==
    hasattr(self.system, "is_author_mode") /\ self.system.is_author_mode

\* whether a get_html result is the rendered wrapper
IsWrapper(out) == hasattr(out, "template")

\* C1: the decorated get_html returns the original get_html's result when the
\* system is in author mode or the feature is disabled for the course, and
\* otherwise the rendering of edxnotes_wrapper.html whose content is the
\* original get_html's result
C1_SkipOrWrap ==
    decOut # Unset =>
        LET self == decIn.self
            orig == original_get_html(self, decIn.args, decIn.kwargs)
        IN  IF InAuthorMode(self) \/ ~self.feature_enabled
            THEN decOut = orig
            ELSE /\ IsWrapper(decOut)
                 /\ decOut.template = "edxnotes_wrapper.html"
                 /\ decOut.context.content = orig

C1_Witness ==
    /\ decOut # Unset
    /\ hasattr(decIn.self.system, "is_author_mode")
    /\ ~decIn.self.system.is_author_mode
    /\ decIn.self.feature_enabled
    /\ IsWrapper(decOut)

\* C6: a system without is_author_mode is treated as not in author mode: the
\* result is the one a system with is_author_mode False gets, wrapped exactly
\* when the feature is enabled
C6_MissingAttributeIsNotAuthorMode ==
    (decOut # Unset /\ ~hasattr(decIn.self.system, "is_author_mode")) =>
        LET self == decIn.self
            explicit == [self EXCEPT !.system =
                            [is_author_mode |-> FALSE,
                             anonymous_student_id |-> self.system.anonymous_student_id]]
        IN  /\ (IsWrapper(decOut) <=> self.feature_enabled)
            /\ decOut = get_html(explicit, decIn.args, decIn.kwargs,
                                 decIn.uid, decIn.debug)

C6_Witness ==
    /\ decOut # Unset
    /\ ~hasattr(decIn.self.system, "is_author_mode")
    /\ decIn.self.feature_enabled
    /\ IsWrapper(decOut)

\* C4: mixed_store_config returns the single key 'default' with the
\* MixedModuleStore engine, the given mappings, and as stores the draft
\* profile, the split profile and then the XML profile exactly when include_xml
\* is true; the Mongo profiles have fs_root = data_dir and the XML profile has
\* data_dir = data_dir
C4_MixedConfigShape ==
    cfgOut # Unset =>
        LET st == cfgOut.default.OPTIONS.stores
        IN  /\ DOMAIN cfgOut = {"default"}
            /\ cfgOut.default.ENGINE = MixedEngine
            /\ cfgOut.default.OPTIONS.mappings = cfgIn.mappings
            /\ Len(st) = (IF cfgIn.include_xml THEN 3 ELSE 2)
            /\ st[1].ENGINE = DraftEngine
            /\ st[2].ENGINE = SplitEngine
            /\ st[1].OPTIONS.fs_root = cfgIn.data_dir
            /\ st[2].OPTIONS.fs_root = cfgIn.data_dir
            /\ cfgIn.include_xml =>
                /\ st[3].ENGINE = XmlEngine
                /\ st[3].OPTIONS.data_dir = cfgIn.data_dir

C4_Witness ==
    /\ cfgOut # Unset
    /\ cfgIn.include_xml
    /\ cfgIn.mappings = MAPPINGS
    /\ Len(cfgOut.default.OPTIONS.stores) = 3

\* C5: the store profiles of a mixed_store_config result have pairwise
\* distinct NAME values
C5_StoreNamesDistinct ==
    cfgOut # Unset =>
        LET st == cfgOut.default.OPTIONS.stores
        IN  \A i, j \in DOMAIN st : i # j => st[i].NAME # st[j].NAME

\* the databases of the sub-stores that have a 'database' attribute
StoreDatabases(ms) ==
    IF hasattr(ms, "modulestores")
    THEN {ms.modulestores[i].database.name :
            i \in {k \in DOMAIN ms.modulestores :
                        hasattr(ms.modulestores[k], "database")}}
    ELSE {}

\* C2: under a mixed configuration, while a test method's body runs the
\* databases of the stores with a 'database' attribute and the contentstore
\* cache hold nothing an earlier test method wrote, and between _post_teardown
\* and the next body they are empty
C2_MongoResetEachTest ==
    (mstore # NoStore /\ isinstance(mstore, MixedEngine)) =>
        /\ pc = "body" =>
            /\ \A n \in StoreDatabases(mstore) : \A d \in mongo[n] : d.test = testNo
            /\ \A t \in contentstore : t = testNo
        /\ pc \in {"class", "pre"} =>
            /\ \A n \in StoreDatabases(mstore) : mongo[n] = {}
            /\ contentstore = {}

C2_Witness ==
    /\ pc = "body"
    /\ testNo = 2
    /\ 1 \in everWrote
    /\ mstore # NoStore
    /\ isinstance(mstore, MixedEngine)
    /\ StoreDatabases(mstore) # {}
    /\ \E n \in StoreDatabases(mstore) : mongo[n] # {}
    /\ contentstore # {}

\* whether the settings configure an XML-backed store
XmlBacked(cfg) ==
    \/ cfg.default.ENGINE = XmlEngine
    \/ /\ cfg.default.ENGINE = MixedEngine
       /\ \E i \in DOMAIN cfg.default.OPTIONS.stores :
            cfg.default.OPTIONS.stores[i].ENGINE = XmlEngine

\* C3: with an XML-backed configuration the modulestore instance a test method
\* uses is the one the previous test method of the same class used, and the
\* first test method of a class uses none an earlier class used
C3_XmlInstanceSurvives ==
    (pc = "body" /\ XmlBacked(settings)) =>
        /\ testInClass >= 2 => selfStore = prevBodyStore
        /\ testInClass = 1 => selfStore \notin usedEarlier

\* C7: drop_mongo_collections drops exactly the databases of the sub-stores
\* that have a 'database' attribute, and none when the modulestore is an
\* XMLModuleStore; it disconnects those stores; it clears the contentstore
\* cache on every call; it calls close_connections exactly when the
\* modulestore provides it
C7_DropMongoCollections ==
    [][(pc' = "pre" \/ (pc = "body" /\ pc' = "class")) =>
        LET ms == IF mstore = NoStore THEN mstore' ELSE mstore
            with_db == IF hasattr(ms, "modulestores")
                       THEN {i \in DOMAIN ms.modulestores :
                                hasattr(ms.modulestores[i], "database")}
                       ELSE {}
        IN  /\ isinstance(ms, XmlEngine) =>
                /\ mongo' = mongo
                /\ lastDrop'.dropped = {}
                /\ lastDrop'.disconnected = {}
            /\ ~isinstance(ms, XmlEngine) =>
                /\ \A n \in DOMAIN mongo :
                    mongo'[n] = IF n \in StoreDatabases(ms) THEN {} ELSE mongo[n]
                /\ lastDrop'.dropped = StoreDatabases(ms)
                /\ lastDrop'.disconnected = with_db
            /\ contentstore' = {}
            /\ lastDrop'.cleared
            /\ lastDrop'.closed <=> hasattr(ms, "close_connections")
      ]_vars

C7_Witness ==
    /\ pc = "pre"
    /\ testNo = 2
    /\ lastDrop # Unset
    /\ lastDrop.dropped # {}
    /\ lastDrop.disconnected = {1}
    /\ lastDrop.cleared
    /\ lastDrop.closed

FsRoots(ms) ==
    IF hasattr(ms, "modulestores")
    THEN {ms.modulestores[i].fs_root :
            i \in {k \in DOMAIN ms.modulestores :
                        hasattr(ms.modulestores[k], "fs_root")}}
    ELSE {}

\* C10: _post_teardown hands to rmtree only paths that start with '/tmp/' and
\* were existing directories; nothing outside '/tmp/' ever disappears; nothing
\* is removed when the modulestore is an XMLModuleStore; a teardown over an
\* fs_root that no longer exists removes nothing and raises nothing
C10_OnlyTmpDirsRemoved ==
    /\ \A k \in DOMAIN rmLog :
        /\ startswith(rmLog[k], TmpPrefix)
        /\ rmLog[k] \in dirsBefore
    /\ \A d \in DataDirs \ dirs : startswith(d, TmpPrefix)
    /\ ~tdRaised
    /\ (pc = "class" /\ mstore # NoStore) =>
        /\ isinstance(mstore, XmlEngine) => (rmLog = <<>> /\ dirs = dirsBefore)
        /\ \A f \in FsRoots(mstore) :
            f \notin dirsBefore => (\A k \in DOMAIN rmLog : rmLog[k] # f)
        /\ (\A f \in FsRoots(mstore) : f \notin dirsBefore) =>
            (rmLog = <<>> /\ dirs = dirsBefore)

C10_Witness ==
    /\ pc = "class"
    /\ testNo = 2
    /\ mstore # NoStore
    /\ isinstance(mstore, MixedEngine)
    /\ \E f \in FsRoots(mstore) : startswith(f, TmpPrefix) /\ f \notin dirsBefore
    /\ rmLog = <<>>
    /\ ~tdRaised


\* the blocks of a block-info tree in pre-order, each with the block_id of
\* its parent (the empty block_id for a top-level block)
RECURSIVE Preorder(_, _)
Preorder(trees, parent_id) ==
    IF trees = <<>> THEN <<>>
    ELSE <<[block_id |-> Head(trees).block_id,
            category |-> Head(trees).category,
            fields |-> Head(trees).fields,
            parent_id |-> parent_id]>>
         \o Preorder(Head(trees).sub_tree, Head(trees).block_id)
         \o Preorder(Tail(trees), parent_id)

\* the positions of a log that hold an operation
Positions(log, op) == {k \in DOMAIN log : log[k].op = op}

\* the tree a create_sample_course call works on
EffectiveTree(in) ==
    IF in.block_info_tree.none THEN default_block_info_tree
    ELSE in.block_info_tree.value

\* C9: create_sample_course creates the course first; then every block of
\* the tree exactly once, in pre-order with siblings in list order, each under
\* the version-agnostic location its parent got (top-level blocks under the
\* course's), after its parent; it records each block's version-agnostic
\* location under its block_id; it publishes the course once, after every
\* block; and it returns the version-agnostic course key.  With no tree given
\* the default tree is used.
C9_SampleCourseOrder ==
    courseOut # Unset =>
        LET log == courseOut.log
            pre == Preorder(EffectiveTree(courseIn), <<>>)
            creates == SelectSeq(log, LAMBDA e : e.op = "create_child")
            course_loc == log[1].loc
        IN  /\ log[1].op = "create_course"
            /\ Positions(log, "create_course") = {1}
            /\ log[1].org = courseIn.org
            /\ log[1].fields = courseIn.course_fields
            /\ Len(creates) = Len(pre)
            /\ \A k \in DOMAIN pre :
                /\ creates[k].block_id = pre[k].block_id
                /\ creates[k].category = pre[k].category
                /\ creates[k].fields = pre[k].fields
                /\ IF pre[k].parent_id = <<>>
                   THEN creates[k].parent = version_agnostic(course_loc)
                   ELSE \E j \in 1..(k - 1) :
                            /\ creates[j].block_id = pre[k].parent_id
                            /\ creates[k].parent = version_agnostic(creates[j].loc)
            /\ DOMAIN courseOut.attrs = {pre[k].block_id : k \in DOMAIN pre}
            /\ \A k \in DOMAIN pre :
                courseOut.attrs[creates[k].block_id] = version_agnostic(creates[k].loc)
            /\ Positions(log, "publish") = {Len(log)}
            /\ log[Len(log)].loc = version_agnostic(course_loc)
            /\ Len(log) = Len(pre) + 2
            /\ courseOut.ret = key_version_agnostic(course_loc.course_key)
            /\ courseOut.ret.version = 0
            /\ \A k \in DOMAIN pre :
                /\ creates[k].parent.version = 0
                /\ courseOut.attrs[pre[k].block_id].version = 0

\* a versioning store, a tree with a grandchild and a second top-level block
C9_Witness ==
    /\ courseOut # Unset
    /\ courseIn.versioned
    /\ ~courseIn.block_info_tree.none
    /\ Len(courseIn.block_info_tree.value) = 2
    /\ \E t \in DOMAIN courseIn.block_info_tree.value :
        \E u \in DOMAIN courseIn.block_info_tree.value[t].sub_tree :
            courseIn.block_info_tree.value[t].sub_tree[u].sub_tree # <<>>
    /\ Len(courseOut.log) = MaxBlocks + 2

\* the default tree is used when none is given
C9_WitnessDefault ==
    /\ courseOut # Unset
    /\ courseIn.block_info_tree.none
    /\ Len(courseOut.log) = Len(Preorder(default_block_info_tree, <<>>)) + 2

\* the collaborators only the wrapping branch needs
WrapperOnly ==
    {"generate_uid", "get_token", "get_endpoint", "reverse", "render_to_string"}

\* C11: every call of the decorated get_html invokes the original get_html
\* exactly once, on the same component and with the positional and keyword
\* arguments it received; in the skip branch (author mode or feature
\* disabled) it invokes none of generate_uid, get_token, get_endpoint, reverse
\* and render_to_string
C11_OriginalOnceHelpersOnlyWhenWrapping ==
    decOut # Unset =>
        LET orig == {k \in DOMAIN decCalls : decCalls[k].fn = "original_get_html"}
        IN  /\ Cardinality(orig) = 1
            /\ \A k \in orig :
                /\ decCalls[k].self = decIn.self
                /\ decCalls[k].args = decIn.args
                /\ decCalls[k].kwargs = decIn.kwargs
                /\ LET res == original_get_html(decCalls[k].self, decCalls[k].args,
                                                decCalls[k].kwargs)
                   IN  IF IsWrapper(decOut) THEN decOut.context.content = res
                       ELSE decOut = res
            /\ (InAuthorMode(decIn.self) \/ ~decIn.self.feature_enabled) =>
                \A k \in DOMAIN decCalls : decCalls[k].fn \notin WrapperOnly

\* a skip-branch call that was handed positional and keyword arguments
C11_Witness ==
    /\ decOut # Unset
    /\ ~InAuthorMode(decIn.self)
    /\ ~decIn.self.feature_enabled
    /\ decIn.args # <<>>
    /\ DOMAIN decIn.kwargs # {}
    /\ ~IsWrapper(decOut)
    /\ \E k \in DOMAIN decCalls : decCalls[k].fn = "original_get_html"

====
